---- MODULE Spec2Model ----
(***************************************************************************)
(* SOLTAG: verification of a scanned attendance claim (qrValidator.ts,     *)
(* zone matching, VerifyScanScreen.tsx) and the offline queue screen       *)
(* (OfflineQueueScreen.tsx).                                               *)
(*                                                                         *)
(* Time is Date.now() in milliseconds.  Coordinates are fixed-point: the   *)
(* latitude range [-90,90] and the longitude range [-180,180] are both     *)
(* divided into CoordUnits equal steps, so that every midpoint computed by *)
(* encodeGeohash is an exact integer.                                      *)
(***************************************************************************)
EXTENDS Integers, Sequences, FiniteSets, TLC

(***************************************************************************)
(* Bounds of the model.                                                    *)
(***************************************************************************)
MaxSessions == 2

MaxRetries == 2

(***************************************************************************)
(* Program constants.                                                      *)
(***************************************************************************)
requiredFields == <<"v", "event_id", "asset", "nonce", "issued_at", "expires_at", "zone", "sig">>

maxPayloadSize == 2048

maxNonceAge == 300000

LedgerLimit == 1000

LedgerKeep == 500

DEFAULT_PRECISION == 5

DefaultTolerance == 1

BASE32 == "0123456789bcdefghjkmnpqrstuvwxyz"

CoordUnits == 1073741824

SigLength == 88

JsonOverhead == 88

trustedKeys ==
    << "7xKXtg2CW87d97TXJSDpbD5jBkheTqA83TZRuJosgAsU",
       "8yLXtg2CW87d97TXJSDpbD5jBkheTqA83TZRuJosgBsV",
       "6zMXtg2CW87d97TXJSDpbD5jBkheTqA83TZRuJosgCsW",
       "5aNXtg2CW87d97TXJSDpbD5jBkheTqA83TZRuJosgDsX",
       "4bOXtg2CW87d97TXJSDpbD5jBkheTqA83TZRuJosgEsY" >>

(***************************************************************************)
(* Small helpers.                                                          *)
(***************************************************************************)
Min(a, b) == IF a < b THEN a ELSE b

Max(a, b) == IF a > b THEN a ELSE b

\* String.prototype.slice(0, n): the first n characters, or the whole string
Slice(s, n) == SubSeq(s, 1, Min(Max(n, 0), Len(s)))

Contains(seq, x) == \E i \in 1..Len(seq) : seq[i] = x

RECURSIVE Digits(_)
\* number of characters JSON.stringify writes for a non-negative integer
Digits(n) == IF n < 10 THEN 1 ELSE 1 + Digits(n \div 10)

(***************************************************************************)
(* Claims (QRPayload) and signatures.                                      *)
(*                                                                         *)
(* An Ed25519 signature is modelled by what it binds: the signing key and  *)
(* the exact message bytes.  flip = 1 is a signature with one byte         *)
(* flipped after signing.                                                  *)
(***************************************************************************)
\* a canonical message that leaves the zone out
buildSignatureMessageNoZone(payload) ==
    << payload.v, payload.event_id, payload.asset, payload.nonce,
       payload.issued_at, payload.expires_at >>

buildSignatureMessage(payload) ==
    << payload.v, payload.event_id, payload.asset, payload.nonce,
       payload.issued_at, payload.expires_at, payload.zone >>

Ed25519Sign(key, message) ==
    [signer |-> key, msg |-> message, flip |-> 0, len |-> SigLength]

Ed25519Verify(sig, message, publicKey) ==
    sig.flip = 0 /\ sig.signer = publicKey /\ sig.msg = message

Claim(eventId, assetId, nonce, issuedAt, expiresAt, zone) ==
    [v |-> 1, event_id |-> eventId, asset |-> assetId, nonce |-> nonce,
     issued_at |-> issuedAt, expires_at |-> expiresAt, zone |-> zone]

Issue(claim, key) ==
    [v |-> claim.v, event_id |-> claim.event_id, asset |-> claim.asset,
     nonce |-> claim.nonce, issued_at |-> claim.issued_at,
     expires_at |-> claim.expires_at, zone |-> claim.zone,
     sig |-> Ed25519Sign(key, buildSignatureMessage(claim))]

FlipSigByte(payload) == [payload EXCEPT !.sig.flip = 1]

\* T of the scenarios, in Unix seconds
T == 100

GoodClaim == Claim("evt-0001", trustedKeys[1], "nonce-0001", T, T + 900, "dr5ru")

\* the payloads a scan can deliver
Payloads ==
    << Issue(GoodClaim, trustedKeys[1]),
       Issue([GoodClaim EXCEPT !.event_id = "evt-0002", !.asset = trustedKeys[2]], trustedKeys[2]),
       FlipSigByte(Issue(GoodClaim, trustedKeys[1])),
       Issue([GoodClaim EXCEPT !.nonce = "n1"], trustedKeys[1]),
       Issue([GoodClaim EXCEPT !.nonce = "nonce-0002", !.zone = "9q8yy"], trustedKeys[1]),
       Issue([GoodClaim EXCEPT !.nonce = "nonce-0003", !.issued_at = T + 900, !.expires_at = T], trustedKeys[1]) >>

NumPayloads == Len(Payloads)

\* the instants (ms) at which the clock is observed: before issued_at, the
\* scans of the scenarios, past the maximum age, within the last second of
\* the window, past expires_at
TimePoints ==
    { (T - 10) * 1000, (T + 10) * 1000, (T + 20) * 1000,
      T * 1000 + maxNonceAge + 500, (T + 900) * 1000 + 500, (T + 901) * 1000 }

\* device positions, in CoordUnits steps from (-90, -180)
Positions ==
    { [latitude |-> 780001852, longitude |-> 316200562],
      [latitude |-> 762206967, longitude |-> 171740829] }

NoLocation == [denied |-> TRUE]

(***************************************************************************)
(* qrValidator.ts                                                          *)
(***************************************************************************)
\* rawData.length of JSON.stringify(qrPayload)
RawLength(payload) ==
    JsonOverhead + Digits(payload.v) + Len(payload.event_id) + Len(payload.asset)
    + Len(payload.nonce) + Digits(payload.issued_at) + Digits(payload.expires_at)
    + Len(payload.zone) + payload.sig.len

\* what validateSchema looks at in a parsed value: whether it is an object,
\* which fields it has, and of each field the typeof and the length
Field(type, length) == [type |-> type, length |-> length]

\* the parsed value of a claim of the model
ShapeOf(payload) ==
    [isObject |-> TRUE,
     fields |-> [f \in DOMAIN payload |->
        CASE f = "v" -> Field("number", 0)
          [] f = "event_id" -> Field("string", Len(payload.event_id))
          [] f = "asset" -> Field("string", Len(payload.asset))
          [] f = "nonce" -> Field("string", Len(payload.nonce))
          [] f = "issued_at" -> Field("number", 0)
          [] f = "expires_at" -> Field("number", 0)
          [] f = "zone" -> Field("string", Len(payload.zone))
          [] f = "sig" -> Field("string", payload.sig.len)]]

\* typeof obj[f] !== 'string' || obj[f].length < n
NotStringOfLength(obj, f, n) == obj[f].type # "string" \/ obj[f].length < n

validateShape(shape) ==
    LET obj == shape.fields
        missing == SelectSeq(requiredFields, LAMBDA f : f \notin DOMAIN obj)
        typeErrors ==
            (IF NotStringOfLength(obj, "event_id", 8) THEN <<"Invalid event_id format">> ELSE <<>>)
            \o (IF NotStringOfLength(obj, "asset", 32) THEN <<"Invalid asset format">> ELSE <<>>)
            \o (IF obj.issued_at.type # "number" \/ obj.expires_at.type # "number"
                THEN <<"Invalid timestamp format">> ELSE <<>>)
            \o (IF NotStringOfLength(obj, "zone", 2) THEN <<"Invalid zone format">> ELSE <<>>)
            \o (IF NotStringOfLength(obj, "nonce", 8) THEN <<"Invalid nonce format">> ELSE <<>>)
            \o (IF NotStringOfLength(obj, "sig", 64) THEN <<"Invalid signature format">> ELSE <<>>)
    IN  IF ~shape.isObject
        THEN [valid |-> FALSE, errors |-> <<"Payload must be an object">>]
        ELSE IF missing # <<>>
        THEN [valid |-> FALSE,
              errors |-> [i \in 1..Len(missing) |-> "Missing required field: " \o missing[i]]]
        ELSE [valid |-> typeErrors = <<>>, errors |-> typeErrors]

validateSchema(obj) == validateShape(ShapeOf(obj))

parseQRCode(payload) ==
    IF RawLength(payload) > maxPayloadSize
    THEN [valid |-> FALSE, errors |-> <<"QR payload exceeds maximum size">>]
    ELSE validateSchema(payload)

\* a verifier that accepts the signature of any key of the list
verifySignatureResultAnyKey(payload, trustedEventKeys) ==
    IF \E i \in 1..Len(trustedEventKeys) :
          Ed25519Verify(payload.sig, buildSignatureMessage(payload), trustedEventKeys[i])
    THEN [valid |-> TRUE, error |-> "", computed |-> TRUE]
    ELSE [valid |-> FALSE, error |-> "Invalid signature", computed |-> TRUE]

\* what verifySignature resolves to; computed: ed25519.verify was called
verifySignatureResult(payload, trustedEventKeys) ==
    LET publicKey == IF Len(trustedEventKeys) > 0 THEN trustedEventKeys[1] ELSE ""
    IN  IF Ed25519Verify(payload.sig, buildSignatureMessage(payload), publicKey)
        THEN [valid |-> TRUE, error |-> "", computed |-> TRUE]
        ELSE [valid |-> FALSE, error |-> "Invalid signature", computed |-> TRUE]

verifySignature(payload, trustedEventKeys) ==
    verifySignatureResult(payload, trustedEventKeys).valid

\* a units slip: the expiry taken in ms against a clock in seconds
validateTimeWindowUnits(payload, nowMs) ==
    LET nowSecs == nowMs \div 1000
    IN  IF nowSecs < payload.issued_at THEN "notStarted"
        ELSE IF nowSecs > payload.expires_at * 1000 THEN "expired"
        ELSE "valid"

validateTimeWindow(payload, nowMs) ==
    LET nowSecs == nowMs \div 1000
    IN  IF nowSecs < payload.issued_at THEN "notStarted"
        ELSE IF nowSecs > payload.expires_at THEN "expired"
        ELSE "valid"

\* a units slip: the maximum age taken in seconds against ages in ms
checkNonceReplaySeconds(nonce, payloadTs, usedNonces, nowMs) ==
    IF nowMs - payloadTs > maxNonceAge \div 1000 THEN FALSE
    ELSE IF Contains(usedNonces, nonce) THEN FALSE
    ELSE TRUE

\* the replay check without the maximum age
checkNonceReplayNoAge(nonce, payloadTs, usedNonces, nowMs) ==
    IF Contains(usedNonces, nonce) THEN FALSE
    ELSE TRUE

checkNonceReplay(nonce, payloadTs, usedNonces, nowMs) ==
    IF nowMs - payloadTs > maxNonceAge THEN FALSE
    ELSE IF Contains(usedNonces, nonce) THEN FALSE
    ELSE TRUE

\* a Set<string> is the sequence of its members in insertion order
SetAdd(set, x) == IF Contains(set, x) THEN set ELSE Append(set, x)

\* a trim that keeps the oldest entries
recordNonceKeepOldest(nonce, usedNonces) ==
    LET added == SetAdd(usedNonces, nonce)
    IN  IF Len(added) > LedgerLimit
        THEN SubSeq(added, 1, LedgerKeep)
        ELSE added

recordNonce(nonce, usedNonces) ==
    LET added == SetAdd(usedNonces, nonce)
    IN  IF Len(added) > LedgerLimit
        THEN SubSeq(added, Len(added) - LedgerKeep + 1, Len(added))
        ELSE added

Checking == [signature |-> "checking", timeWindow |-> "checking",
             location |-> "checking", duplicate |-> "checking"]

validateQRPayload(payload, trustedEventKeys, usedNonces, nowMs) ==
    LET result == [signature |-> "checking", timeWindow |-> "checking",
                   location |-> "checking", duplicate |-> "checking",
                   hasPayload |-> FALSE]
        timeStatus == validateTimeWindow(payload, nowMs)
    IN  IF ~parseQRCode(payload).valid
        THEN [result EXCEPT !.signature = "invalid"]
        ELSE IF ~verifySignature(payload, trustedEventKeys)
        THEN [result EXCEPT !.signature = "invalid"]
        ELSE IF timeStatus # "valid"
        THEN [result EXCEPT !.signature = "valid", !.timeWindow = timeStatus,
                            !.hasPayload = TRUE]
        ELSE IF ~checkNonceReplay(payload.nonce, payload.issued_at * 1000, usedNonces, nowMs)
        THEN [result EXCEPT !.signature = "valid", !.timeWindow = timeStatus,
                            !.duplicate = "duplicate", !.hasPayload = TRUE]
        ELSE [result EXCEPT !.signature = "valid", !.timeWindow = timeStatus,
                            !.duplicate = "clear", !.hasPayload = TRUE]

(***************************************************************************)
(* Zone matching (services/zone).                                          *)
(***************************************************************************)
RECURSIVE encodeLoop(_, _, _, _, _, _, _, _, _, _, _)
encodeLoop(latitude, longitude, precision, latMin, latMax, lonMin, lonMax, hash, bit, ch, isLon) ==
    IF Len(hash) >= precision THEN hash
    ELSE
        LET mid == IF isLon THEN (lonMin + lonMax) \div 2 ELSE (latMin + latMax) \div 2
            up == IF isLon THEN longitude >= mid ELSE latitude >= mid
            ch2 == IF up THEN ch * 2 + 1 ELSE ch * 2
            lonMin2 == IF isLon /\ up THEN mid ELSE lonMin
            lonMax2 == IF isLon /\ ~up THEN mid ELSE lonMax
            latMin2 == IF ~isLon /\ up THEN mid ELSE latMin
            latMax2 == IF ~isLon /\ ~up THEN mid ELSE latMax
        IN  IF bit + 1 = 5
            THEN encodeLoop(latitude, longitude, precision, latMin2, latMax2,
                            lonMin2, lonMax2, hash \o SubSeq(BASE32, ch2 + 1, ch2 + 1),
                            0, 0, ~isLon)
            ELSE encodeLoop(latitude, longitude, precision, latMin2, latMax2,
                            lonMin2, lonMax2, hash, bit + 1, ch2, ~isLon)

encodeGeohashThrows(latitude, longitude, precision) ==
    \/ latitude < 0 \/ latitude > CoordUnits
    \/ longitude < 0 \/ longitude > CoordUnits
    \/ precision < 1 \/ precision > 12

\* an encoder whose first bit is a latitude bit at even precisions
encodeGeohashLatFirst(latitude, longitude, precision) ==
    encodeLoop(latitude, longitude, precision, 0, CoordUnits, 0, CoordUnits,
               "", 0, 0, precision % 2 = 1)

encodeGeohash(latitude, longitude, precision) ==
    encodeLoop(latitude, longitude, precision, 0, CoordUnits, 0, CoordUnits,
               "", 0, 0, TRUE)

\* the prefix length taken as length - tolerance, with no floor of 1
checkZoneMatchNoFloor(userZone, allowedZones, tolerance) ==
    \/ \E i \in 1..Len(allowedZones) : userZone = allowedZones[i]
    \/ /\ tolerance > 0
       /\ LET prefixLength == Len(userZone) - tolerance
          IN  \E i \in 1..Len(allowedZones) :
                  Slice(userZone, prefixLength) = Slice(allowedZones[i], prefixLength)

checkZoneMatch(userZone, allowedZones, tolerance) ==
    \/ \E i \in 1..Len(allowedZones) : userZone = allowedZones[i]
    \/ /\ tolerance > 0
       /\ LET prefixLength == Max(1, Len(userZone) - tolerance)
          IN  \E i \in 1..Len(allowedZones) :
                  Slice(userZone, prefixLength) = Slice(allowedZones[i], prefixLength)

\* SHA-256 of the zone code in hex, modelled by what it binds: the digest of
\* a code is a string no code is, and differs for different codes
hashZoneCode(zoneCode) == "sha256:" \o zoneCode

\* the zoneCode of getCurrentZone at the default precision
getCurrentZone(location) ==
    encodeGeohash(location.latitude, location.longitude, DEFAULT_PRECISION)

\* location is what requestLocation() resolved to: a position or NoLocation (null)
verifyZone(allowedZones, tolerance, location) ==
    IF location = NoLocation THEN "denied"
    ELSE IF checkZoneMatch(getCurrentZone(location), allowedZones, tolerance)
    THEN "valid"
    ELSE "mismatch"

(***************************************************************************)
(* The relay request (services/api): secureFetch, fetchWithRetry,          *)
(* fetchJson, postJson, mintAttendanceNFT.                                 *)
(***************************************************************************)
maxRetries == 3

retryDelay == 1000

\* String.prototype.includes
Includes(str, sub) ==
    \E i \in 1..(Len(str) - Len(sub) + 1) : SubSeq(str, i, i + Len(sub) - 1) = sub

\* what one secureFetch call ends with: a Response, or a thrown Error
Response(status) ==
    [kind |-> "response", status |-> status, ok |-> (status >= 200 /\ status < 300)]

Thrown(message) == [kind |-> "throw", message |-> message]

FetchOutcomes ==
    { Response(200), Response(400), Response(503),
      Thrown("Failed to fetch"),
      Thrown("NetworkError when attempting to fetch resource."),
      Thrown("Request timeout after 30000ms") }

\* the signature in the relay's 200 response
RelaySignature == "relay-signature"

MockSignature == "5wHu3mPq9X8kL2nV4bC7jR1dF6tY0sAqE3zI8uO9pN1cMock"

\* fetchWithRetry returns the response: it is ok or a client error
returnsResponse(outcome) ==
    /\ outcome.kind = "response"
    /\ (outcome.ok \/ (outcome.status >= 400 /\ outcome.status < 500))

\* lastError after an attempt that did not return
errorAfter(outcome, lastError) ==
    IF outcome.kind = "throw" THEN outcome.message
    ELSE IF outcome.status >= 500 THEN "Server error: " \o ToString(outcome.status)
    ELSE lastError

\* one attempt more than the loop allows
hasNextAttemptOneMore(attempt) == attempt + 1 <= maxRetries + 1

\* the loop of fetchWithRetry goes on after attempt: attempt < maxRetries
\* waits, attempt++ then satisfies attempt <= maxRetries
hasNextAttempt(attempt) == attempt + 1 <= maxRetries

\* the delay before the attempt that follows attempt
backoffDelay(attempt) == retryDelay * 2 ^ attempt

\* what fetchWithRetry throws when the loop ends
thrownAfterRetries(lastError) ==
    IF lastError = "" THEN "Request failed after retries" ELSE lastError

\* fetchJson / postJson: outcome is the response fetchWithRetry returned, or
\* thrown is the message of the Error it threw
fetchJson(outcome, thrown) ==
    IF thrown # "" THEN [ok |-> FALSE, signature |-> "", error |-> thrown]
    ELSE IF ~outcome.ok
    THEN [ok |-> FALSE, signature |-> "", error |-> "HTTP " \o ToString(outcome.status)]
    ELSE [ok |-> TRUE, signature |-> RelaySignature, error |-> ""]

\* the demo fallback of mintAttendanceNFT applies to result
mintFallsBack(result) ==
    /\ ~result.ok
    /\ (Includes(result.error, "failed to fetch") \/ Includes(result.error, "NetworkError"))

\* what mintAttendanceNFT returns for the result of postJson
mintAttendanceNFT(result) ==
    IF result.ok THEN result
    ELSE IF mintFallsBack(result)
    THEN [ok |-> TRUE, signature |-> MockSignature, error |-> ""]
    ELSE result

(***************************************************************************)
(* VerifyScanScreen.tsx                                                    *)
(***************************************************************************)
\* acceptance that does not wait for the zone check
allPassedNoZone(status) ==
    /\ status.signature = "valid"
    /\ status.timeWindow = "valid"
    /\ status.duplicate = "clear"

allPassed(status) ==
    /\ status.signature = "valid"
    /\ status.timeWindow = "valid"
    /\ status.location = "valid"
    /\ status.duplicate = "clear"

hasFailed(status) ==
    \/ status.signature = "invalid"
    \/ status.timeWindow = "expired"
    \/ status.location = "mismatch"
    \/ status.duplicate = "duplicate"

\* the variant that commits as soon as the replay check passes
shouldRecordNonceEarly(result, locationStatus) ==
    /\ result.signature = "valid"
    /\ result.timeWindow = "valid"
    /\ result.duplicate = "clear"

\* lines 289-295: the guard of recordNonce
shouldRecordNonce(result, locationStatus) ==
    /\ result.signature = "valid"
    /\ result.timeWindow = "valid"
    /\ result.duplicate = "clear"
    /\ locationStatus = "valid"

VARIABLES
    now,            \* Date.now(), in ms
    storedNonces,   \* the array persisted under STORAGE_KEYS.USED_NONCES
    mounted,        \* the mounted VerifyScanScreen instance, 0 when none
    session,        \* per screen instance: component state and position of its run
    accepted,       \* history: the nonces of the verifications that were accepted
    proceededWith   \* history: the statuses with which /confirm was entered

verifyVars == <<now, storedNonces, mounted, session, accepted, proceededWith>>

VARIABLES
    offlineQueue,   \* the queue persisted under STORAGE_KEYS.OFFLINE_QUEUE
    queueMounted,   \* whether an OfflineQueueScreen instance is mounted
    queueItems,     \* its state queueItems
    timers,         \* per id: pending setTimeout callbacks of the mounted instance
    orphanTimers,   \* per id: pending callbacks of instances since unmounted
    enqueued,       \* history: the ids that were put in the queue
    discarded,      \* history: the ids the user removed
    finalized       \* history: the ids whose submission the relay confirmed

queueVars == <<offlineQueue, queueMounted, queueItems, timers, orphanTimers,
               enqueued, discarded, finalized>>

VARIABLES
    mint            \* TransactionPendingScreen: state and position of performMint

submitVars == <<mint>>

VARIABLES
    zoneCheck       \* one call of checkZoneMatch: its arguments and its answer

zoneVars == <<zoneCheck>>

VARIABLES
    call            \* one call of a function on its own: its arguments and its result

callVars == <<call>>

vars == <<now, storedNonces, mounted, session, accepted, proceededWith,
          offlineQueue, queueMounted, queueItems, timers, orphanTimers,
          enqueued, discarded, finalized, mint, zoneCheck, call>>

Sessions == 1..MaxSessions

\* a screen instance not yet created, or unmounted with no run left in flight
NewSession ==
    [pc |-> "new", qr |-> 0, usedNonces |-> <<>>, isCancelled |-> FALSE,
     status |-> Checking,
     result |-> [signature |-> "checking", timeWindow |-> "checking",
                 location |-> "checking", duplicate |-> "checking",
                 hasPayload |-> FALSE],
     location |-> NoLocation, checkedAt |-> -1, ledgerAtCheck |-> <<>>,
     zoneResult |-> "none", commits |-> 0]

Gone == [NewSession EXCEPT !.pc = "gone"]

VerifyInit ==
    /\ now = (T - 10) * 1000
    /\ storedNonces = <<>>
    /\ mounted = 0
    /\ session = [s \in Sessions |-> NewSession]
    /\ accepted = {}
    /\ proceededWith = {}

qrPayload(s) == Payloads[session[s].qr]

\* ScanScreen navigates to /verify with a scanned payload: a fresh instance
\* is mounted and its first effect starts loadUsedNonces().  location is
\* what the device's geolocation answers during this verification.
Mount(s, p, location) ==
    /\ mounted = 0
    /\ session[s].pc = "new"
    /\ \A r \in Sessions : r < s => session[r].pc # "new"
    /\ mounted' = s
    /\ session' = [session EXCEPT ![s].pc = "loading", ![s].qr = p,
                                   ![s].location = location]
    /\ UNCHANGED <<now, storedNonces, accepted, proceededWith, queueVars, submitVars, zoneVars, callVars>>

\* loadUsedNonces() resolves: setUsedNonces, setIsNoncesLoaded(true).
\* readOk is the outcome of secureGet: a read that fails or cannot be decoded
\* (the native plugin throws and localStorage has no copy; the AES-GCM key of
\* this process does not decrypt the stored text) yields null, and with it an
\* empty set.
LoadUsedNonces(s, readOk) ==
    /\ mounted = s
    /\ session[s].pc = "loading"
    /\ session' = [session EXCEPT ![s].pc = "loaded",
                                   ![s].usedNonces = IF readOk THEN storedNonces ELSE <<>>]
    /\ UNCHANGED <<now, storedNonces, mounted, accepted, proceededWith, queueVars, submitVars, zoneVars, callVars>>

\* performVerification, lines 254-300 up to the await of verifyZone
Validate(s) ==
    /\ mounted = s
    /\ session[s].pc = "loaded"
    /\ LET result == validateQRPayload(qrPayload(s), trustedKeys,
                                       session[s].usedNonces, now)
           status1 == [session[s].status EXCEPT
                          !.signature = result.signature,
                          !.timeWindow = result.timeWindow,
                          !.duplicate = result.duplicate]
       IN  session' = [session EXCEPT
                ![s].result = result,
                ![s].checkedAt = now,
                ![s].ledgerAtCheck = session[s].usedNonces,
                ![s].status = IF result.hasPayload THEN status1
                              ELSE [status1 EXCEPT !.location = "mismatch"],
                ![s].pc = IF result.hasPayload THEN "locating" ELSE "done"]
    /\ UNCHANGED <<now, storedNonces, mounted, accepted, proceededWith, queueVars, submitVars, zoneVars, callVars>>

\* verifyZone resolves with the outcome of requestLocation(); lines 281-297,
\* through the synchronous part of recordNonce
ZoneResolved(s) ==
    /\ session[s].pc = "locating"
    /\ LET location == session[s].location
           zoneResult == verifyZone(<<qrPayload(s).zone>>, DefaultTolerance, location)
           locationStatus == IF zoneResult = "valid" THEN "valid" ELSE "mismatch"
           commit == shouldRecordNonce(session[s].result, locationStatus)
           nonce == qrPayload(s).nonce
       IN  IF session[s].isCancelled
           THEN /\ session' = [session EXCEPT ![s] = Gone]
                /\ UNCHANGED accepted
           ELSE /\ session' = [session EXCEPT
                        ![s].zoneResult = zoneResult,
                        ![s].status.location = locationStatus,
                        ![s].usedNonces = IF commit THEN recordNonce(nonce, @) ELSE @,
                        ![s].commits = IF commit THEN @ + 1 ELSE @,
                        ![s].pc = IF commit THEN "saving" ELSE "done"]
                /\ accepted' = IF allPassed(session'[s].status)
                               THEN accepted \cup {nonce}
                               ELSE accepted
    /\ UNCHANGED <<now, storedNonces, mounted, proceededWith, queueVars, submitVars, zoneVars, callVars>>

\* saveUsedNonces: the array taken from the set reaches storage, or secureSet
\* throws (the native plugin and localStorage both fail, encryption fails,
\* the quota is exceeded): recordNonce and with it performVerification
\* reject, and nothing handles the rejection
SaveDone(s, writeOk) ==
    /\ session[s].pc = "saving"
    /\ storedNonces' = IF writeOk THEN session[s].usedNonces ELSE storedNonces
    /\ session' = [session EXCEPT
            ![s] = IF ~writeOk
                   THEN (IF session[s].isCancelled
                         THEN [Gone EXCEPT !.pc = "rejected", !.qr = session[s].qr]
                         ELSE [@ EXCEPT !.pc = "rejected"])
                   ELSE IF session[s].isCancelled THEN Gone
                   ELSE [@ EXCEPT !.pc = "done"]]
    /\ UNCHANGED <<now, mounted, accepted, proceededWith, queueVars, submitVars, zoneVars, callVars>>

\* what is left of an instance once it is unmounted: its component state is
\* dropped, and only a run in flight goes on.  A run awaiting verifyZone
\* returns at line 281 whatever it holds, so only its position is kept; a
\* run awaiting saveUsedNonces still writes its set.
\* an unmount that leaves the runs in flight as they are
UnmountedNoCancel(sess) ==
    IF sess.pc \in {"locating", "saving"} THEN sess ELSE Gone

Unmounted(sess) ==
    IF sess.pc = "locating"
    THEN [Gone EXCEPT !.pc = "locating", !.qr = sess.qr, !.isCancelled = TRUE]
    ELSE IF sess.pc = "saving"
    THEN [sess EXCEPT !.isCancelled = TRUE]
    ELSE Gone

\* the effect's cleanup: back, Cancel, or any navigation away
Unmount(s) ==
    /\ mounted = s
    /\ mounted' = 0
    /\ session' = [session EXCEPT ![s] = Unmounted(@)]
    /\ UNCHANGED <<now, storedNonces, accepted, proceededWith, queueVars, submitVars, zoneVars, callVars>>

\* the Proceed button (disabled = !allPassed) navigates to /confirm
handleProceed(s) ==
    /\ mounted = s
    /\ allPassed(session[s].status)
    /\ mounted' = 0
    /\ session' = [session EXCEPT ![s] = Unmounted(@)]
    /\ proceededWith' = proceededWith \cup {session[s].status}
    /\ UNCHANGED <<now, storedNonces, accepted, queueVars, submitVars, zoneVars, callVars>>

Tick(t) ==
    /\ t > now
    /\ now' = t
    /\ UNCHANGED <<storedNonces, mounted, session, accepted, proceededWith, queueVars, submitVars, zoneVars, callVars>>

\* the application is closed and started again: every screen instance and
\* every run in flight is gone, storage stays as it is
Restart ==
    /\ \E s \in Sessions : session[s].pc \notin {"new", "gone"}
    /\ mounted' = 0
    /\ session' = [s \in Sessions |->
                      IF session[s].pc = "new" THEN session[s] ELSE Gone]
    /\ UNCHANGED <<now, storedNonces, accepted, proceededWith, queueVars, submitVars, zoneVars, callVars>>

VerifyNext ==
    \/ \E s \in Sessions, p \in 1..NumPayloads, l \in Positions \cup {NoLocation} :
          Mount(s, p, l)
    \/ \E s \in Sessions, readOk \in BOOLEAN : LoadUsedNonces(s, readOk)
    \/ \E s \in Sessions : Validate(s)
    \/ \E s \in Sessions : ZoneResolved(s)
    \/ \E s \in Sessions, writeOk \in BOOLEAN : SaveDone(s, writeOk)
    \/ \E s \in Sessions : Unmount(s)
    \/ \E s \in Sessions : handleProceed(s)
    \/ \E t \in TimePoints : Tick(t)
    \/ Restart

(***************************************************************************)
(* OfflineQueueScreen.tsx and the persisted queue (services/offlineQueue). *)
(***************************************************************************)
ItemIds == {"queue-001", "queue-002"}

QueueStatuses == {"signed", "pending", "needsResign", "failed"}

\* a QueueItem; signedTx counts the transactions signed for the id
QueueItem(id, signedTx, status, retries) ==
    [id |-> id, signedTx |-> signedTx, status |-> status, retries |-> retries]

HasItem(queue, id) == \E i \in 1..Len(queue) : queue[i].id = id

ItemOf(queue, id) == queue[CHOOSE i \in 1..Len(queue) : queue[i].id = id]

\* update(id, partial-fields)
updateQueueItem(queue, id, updates) ==
    [i \in 1..Len(queue) |->
        IF queue[i].id = id
        THEN [f \in DOMAIN queue[i] |->
                 IF f \in DOMAIN updates THEN updates[f] ELSE queue[i][f]]
        ELSE queue[i]]

\* remove(id)
removeFromQueue(queue, id) == SelectSeq(queue, LAMBDA item : item.id # id)

InitialItems == {QueueItem(id, 1, st, 0) : id \in ItemIds, st \in QueueStatuses}

\* creation-ordered queues with at most one item per id
InitialQueues ==
    {q \in UNION {[1..n -> InitialItems] : n \in 0..Cardinality(ItemIds)} :
        \A i, j \in 1..Len(q) : i # j => q[i].id # q[j].id}

QueueInitWith(queue) ==
    /\ offlineQueue = queue
    /\ queueMounted = FALSE
    /\ queueItems = <<>>
    /\ timers = [id \in ItemIds |-> 0]
    /\ orphanTimers = [id \in ItemIds |-> 0]
    /\ enqueued = {queue[i].id : i \in 1..Len(queue)}
    /\ discarded = {}
    /\ finalized = {}

QueueInit == \E queue \in InitialQueues : QueueInitWith(queue)

\* mount: fetchQueue loads the persisted queue into the state
QueueMount ==
    /\ ~queueMounted
    /\ queueMounted' = TRUE
    /\ queueItems' = offlineQueue
    /\ UNCHANGED <<offlineQueue, timers, orphanTimers, enqueued, discarded, finalized, verifyVars, submitVars, zoneVars, callVars>>

\* unmount: the timers are not cleared
QueueUnmount ==
    /\ queueMounted
    /\ queueMounted' = FALSE
    /\ queueItems' = <<>>
    /\ orphanTimers' = [id \in ItemIds |-> orphanTimers[id] + timers[id]]
    /\ timers' = [id \in ItemIds |-> 0]
    /\ UNCHANGED <<offlineQueue, enqueued, discarded, finalized, verifyVars, submitVars, zoneVars, callVars>>

RECURSIVE RetryEach(_, _, _)
\* handleRetry's updates for every id of ids found in the state items
RetryEach(queue, items, ids) ==
    IF ids = {} THEN queue
    ELSE LET id == CHOOSE x \in ids : TRUE
             updates == [status |-> "pending", retries |-> ItemOf(items, id).retries + 1]
         IN  RetryEach(updateQueueItem(queue, id, updates), items, ids \ {id})

\* the retry button of one item (disabled while the item is pending)
handleRetry(itemId) ==
    /\ queueMounted
    /\ HasItem(queueItems, itemId)
    /\ ItemOf(queueItems, itemId).status # "pending"
    /\ ItemOf(queueItems, itemId).retries < MaxRetries
    /\ offlineQueue' = RetryEach(offlineQueue, queueItems, {itemId})
    /\ queueItems' = RetryEach(queueItems, queueItems, {itemId})
    /\ timers' = [timers EXCEPT ![itemId] = @ + 1]
    /\ UNCHANGED <<queueMounted, orphanTimers, enqueued, discarded, finalized, verifyVars, submitVars, zoneVars, callVars>>

\* Retry All: handleRetry for every item of the state, whatever its status
handleRetryAll ==
    /\ queueMounted
    /\ Len(queueItems) > 0
    /\ \A i \in 1..Len(queueItems) : queueItems[i].retries < MaxRetries
    /\ LET ids == {queueItems[i].id : i \in 1..Len(queueItems)}
       IN  /\ offlineQueue' = RetryEach(offlineQueue, queueItems, ids)
           /\ queueItems' = RetryEach(queueItems, queueItems, ids)
           /\ timers' = [id \in ItemIds |-> IF id \in ids THEN timers[id] + 1 ELSE timers[id]]
    /\ UNCHANGED <<queueMounted, orphanTimers, enqueued, discarded, finalized, verifyVars, submitVars, zoneVars, callVars>>

\* the remove button
handleRemove(itemId) ==
    /\ queueMounted
    /\ HasItem(queueItems, itemId)
    /\ offlineQueue' = removeFromQueue(offlineQueue, itemId)
    /\ queueItems' = removeFromQueue(queueItems, itemId)
    /\ discarded' = discarded \cup {itemId}
    /\ UNCHANGED <<queueMounted, timers, orphanTimers, enqueued, finalized, verifyVars, submitVars, zoneVars, callVars>>

\* the setTimeout callback of handleRetry, 2000 ms after the retry
RetryTimerFires(itemId) ==
    /\ timers[itemId] > 0
    /\ timers' = [timers EXCEPT ![itemId] = @ - 1]
    /\ offlineQueue' = removeFromQueue(offlineQueue, itemId)
    /\ queueItems' = removeFromQueue(queueItems, itemId)
    /\ UNCHANGED <<queueMounted, orphanTimers, enqueued, discarded, finalized, verifyVars, submitVars, zoneVars, callVars>>

\* the same callback when its screen instance is no longer mounted
OrphanTimerFires(itemId) ==
    /\ orphanTimers[itemId] > 0
    /\ orphanTimers' = [orphanTimers EXCEPT ![itemId] = @ - 1]
    /\ offlineQueue' = removeFromQueue(offlineQueue, itemId)
    /\ UNCHANGED <<queueMounted, queueItems, timers, enqueued, discarded, finalized, verifyVars, submitVars, zoneVars, callVars>>

\* the signing collaborator supplies a fresh transaction for a needs-resign item
Resigned(itemId) ==
    /\ HasItem(offlineQueue, itemId)
    /\ ItemOf(offlineQueue, itemId).status = "needsResign"
    /\ offlineQueue' = updateQueueItem(offlineQueue, itemId,
            [signedTx |-> ItemOf(offlineQueue, itemId).signedTx + 1, status |-> "pending"])
    /\ UNCHANGED <<queueMounted, queueItems, timers, orphanTimers, enqueued,
                   discarded, finalized, verifyVars, submitVars, zoneVars, callVars>>

\* the ledger relay confirms the finalization of a pending submission
RelayFinalized(itemId) ==
    /\ HasItem(offlineQueue, itemId)
    /\ ItemOf(offlineQueue, itemId).status = "pending"
    /\ itemId \notin finalized
    /\ finalized' = finalized \cup {itemId}
    /\ UNCHANGED <<offlineQueue, queueMounted, queueItems, timers, orphanTimers,
                   enqueued, discarded, verifyVars, submitVars, zoneVars, callVars>>

\* the ledger relay reports an error for a pending submission
SubmissionFailed(itemId) ==
    /\ HasItem(offlineQueue, itemId)
    /\ ItemOf(offlineQueue, itemId).status = "pending"
    /\ itemId \notin finalized
    /\ offlineQueue' = updateQueueItem(offlineQueue, itemId, [status |-> "failed"])
    /\ UNCHANGED <<queueMounted, queueItems, timers, orphanTimers, enqueued,
                   discarded, finalized, verifyVars, submitVars, zoneVars, callVars>>

QueueNext ==
    \/ QueueMount
    \/ QueueUnmount
    \/ \E id \in ItemIds : handleRetry(id)
    \/ handleRetryAll
    \/ \E id \in ItemIds : handleRemove(id)
    \/ \E id \in ItemIds : RetryTimerFires(id)
    \/ \E id \in ItemIds : OrphanTimerFires(id)
    \/ \E id \in ItemIds : Resigned(id)
    \/ \E id \in ItemIds : RelayFinalized(id)
    \/ \E id \in ItemIds : SubmissionFailed(id)

(***************************************************************************)
(* TransactionPendingScreen.tsx: performMint.                              *)
(***************************************************************************)
NoResult == [ok |-> FALSE, signature |-> "", error |-> ""]

\* the claim the pending screen received in location.state
MintPayload == Payloads[1]

\* the zone values in the records a request of mintAttendanceNFT sends out:
\* the body of POST /mint once the relay has it, and the row inserted in the
\* attendance table after a 200 when the profile and the event are found
ZonesSent(outcome, profileFound) ==
    (IF outcome.kind = "response" THEN {<<"relay", MintPayload.zone>>} ELSE {})
    \cup (IF outcome.kind = "response" /\ outcome.ok /\ profileFound
          THEN {<<"attendance", MintPayload.zone>>} ELSE {})

SubmitInit ==
    mint = [pc |-> "idle", status |-> "signing", attempt |-> 0, lastError |-> "",
            outcomes |-> <<>>, waited |-> 0, result |-> NoResult,
            txSignature |-> "", error |-> "", isCancelled |-> FALSE,
            navigated |-> FALSE, zonesOut |-> {}]

\* performMint after mintAttendanceNFT resolved with result: lines 43-79,
\* up to the wait that follows setStatus('confirming')
MintReturned(m, result) ==
    IF m.isCancelled THEN [m EXCEPT !.pc = "ended", !.result = result]
    ELSE IF result.ok
    THEN [m EXCEPT !.pc = "confirming", !.result = result,
                   !.txSignature = result.signature, !.status = "confirming"]
    ELSE [m EXCEPT !.pc = "ended", !.result = result, !.error = result.error]

\* mintAttendanceNFT has the result of postJson: it returns, or waits 2000 ms
\* in its fallback before it returns
PostJsonReturned(m, result) ==
    IF mintFallsBack(result)
    THEN [m EXCEPT !.pc = "simulating", !.result = result]
    ELSE MintReturned(m, mintAttendanceNFT(result))

\* the screen is mounted and the effect starts performMint
MintMount(walletConnected) ==
    /\ mint.pc = "idle"
    /\ mint' = IF walletConnected
               THEN [mint EXCEPT !.pc = "signing", !.status = "signing"]
               ELSE [mint EXCEPT !.pc = "ended", !.error = "Wallet not connected"]
    /\ UNCHANGED <<verifyVars, queueVars, zoneVars, callVars>>

\* the 1000 ms of the simulated signing are over: the request is sent
SignDelayDone ==
    /\ mint.pc = "signing"
    /\ mint' = IF mint.isCancelled THEN [mint EXCEPT !.pc = "ended"]
               ELSE [mint EXCEPT !.pc = "fetching", !.status = "sending",
                                 !.attempt = 0, !.lastError = ""]
    /\ UNCHANGED <<verifyVars, queueVars, zoneVars, callVars>>

\* one secureFetch of the loop of fetchWithRetry ends with outcome
SecureFetchDone(outcome, profileFound) ==
    /\ mint.pc = "fetching"
    /\ profileFound => (outcome.kind = "response" /\ outcome.ok)
    /\ LET m == [mint EXCEPT !.outcomes = Append(@, outcome),
                             !.zonesOut = @ \cup ZonesSent(outcome, profileFound)]
           lastError == errorAfter(outcome, mint.lastError)
       IN  mint' =
             IF returnsResponse(outcome)
             THEN PostJsonReturned(m, fetchJson(outcome, ""))
             ELSE IF hasNextAttempt(mint.attempt)
             THEN [m EXCEPT !.pc = "backoff", !.lastError = lastError]
             ELSE PostJsonReturned([m EXCEPT !.lastError = lastError],
                                   fetchJson(outcome, thrownAfterRetries(lastError)))
    /\ UNCHANGED <<verifyVars, queueVars, zoneVars, callVars>>

\* the backoff delay is over: attempt++ and the next secureFetch
BackoffDone ==
    /\ mint.pc = "backoff"
    /\ mint' = [mint EXCEPT !.pc = "fetching", !.attempt = @ + 1,
                            !.waited = @ + backoffDelay(mint.attempt)]
    /\ UNCHANGED <<verifyVars, queueVars, zoneVars, callVars>>

\* the 2000 ms of the fallback are over: mintAttendanceNFT returns
SimulationDelayDone ==
    /\ mint.pc = "simulating"
    /\ mint' = MintReturned(mint, mintAttendanceNFT(mint.result))
    /\ UNCHANGED <<verifyVars, queueVars, zoneVars, callVars>>

\* the 1500 ms of 'confirming' are over
ConfirmDelayDone ==
    /\ mint.pc = "confirming"
    /\ mint' = IF mint.isCancelled THEN [mint EXCEPT !.pc = "ended"]
               ELSE [mint EXCEPT !.pc = "done", !.status = "done"]
    /\ UNCHANGED <<verifyVars, queueVars, zoneVars, callVars>>

\* the timer set with status 'done' fires: navigate('/success')
NavigateSuccess ==
    /\ mint.pc = "done"
    /\ mint' = [mint EXCEPT !.pc = "ended", !.navigated = ~mint.isCancelled]
    /\ UNCHANGED <<verifyVars, queueVars, zoneVars, callVars>>

\* the effect's cleanup
MintUnmount ==
    /\ mint.pc # "idle"
    /\ ~mint.isCancelled
    /\ ~mint.navigated
    /\ mint' = [mint EXCEPT !.isCancelled = TRUE]
    /\ UNCHANGED <<verifyVars, queueVars, zoneVars, callVars>>

SubmitNext ==
    \/ \E walletConnected \in BOOLEAN : MintMount(walletConnected)
    \/ SignDelayDone
    \/ \E outcome \in FetchOutcomes, profileFound \in BOOLEAN :
          SecureFetchDone(outcome, profileFound)
    \/ BackoffDone
    \/ SimulationDelayDone
    \/ ConfirmDelayDone
    \/ NavigateSuccess
    \/ MintUnmount

(***************************************************************************)
(* checkZoneMatch on its own: any observed code, list of allowed codes and *)
(* tolerance.                                                              *)
(***************************************************************************)
MaxTolerance == 3

MaxAllowedZones == 2

\* zone codes of several lengths, the empty code included
ZoneCodes == {"", "d", "dr", "dq", "dr5", "dr5ru", "dr5rv", "9q", "9q8yy"}

AllowedZoneLists == UNION {[1..n -> ZoneCodes] : n \in 0..MaxAllowedZones}

ZoneInitWith(userZone, allowedZones, tolerance) ==
    zoneCheck = [userZone |-> userZone, allowedZones |-> allowedZones,
                 tolerance |-> tolerance, called |-> FALSE, matches |-> FALSE]

ZoneInit ==
    \E userZone \in ZoneCodes, allowedZones \in AllowedZoneLists,
       tolerance \in 0..MaxTolerance :
        ZoneInitWith(userZone, allowedZones, tolerance)

\* checkZoneMatch(userZone, allowedZones, tolerance) is called and returns
CheckZone ==
    /\ ~zoneCheck.called
    /\ zoneCheck' = [zoneCheck EXCEPT
            !.called = TRUE,
            !.matches = checkZoneMatch(zoneCheck.userZone, zoneCheck.allowedZones,
                                       zoneCheck.tolerance)]
    /\ UNCHANGED <<verifyVars, queueVars, submitVars, callVars>>

ZoneNext == CheckZone

\* no function is called on its own
NoCall == call = [fn |-> "none"]

(***************************************************************************)
(* verifySignature on its own: a claim signed by some issuer, one of its   *)
(* signed fields possibly changed after signing, and a list of trusted     *)
(* keys.                                                                   *)
(***************************************************************************)
UntrustedKey == "9cPXtg2CW87d97TXJSDpbD5jBkheTqA83TZRuJosgFsZ"

\* the issuers that sign claims
SigningKeys == {trustedKeys[1], trustedKeys[2], UntrustedKey}

\* lists of event keys: the organizer authority first, or not
KeyLists ==
    { <<trustedKeys[1]>>, <<trustedKeys[1], trustedKeys[2]>>,
      <<trustedKeys[2], trustedKeys[1]>>, trustedKeys }

\* the fields buildSignatureMessage covers
SignedFields == {"v", "event_id", "asset", "nonce", "issued_at", "expires_at", "zone"}

\* payload with the value of field changed to another value of its type
Tampered(payload, field) ==
    CASE field = "none" -> payload
      [] field = "v" -> [payload EXCEPT !.v = @ + 1]
      [] field = "event_id" -> [payload EXCEPT !.event_id = "evt-9999"]
      [] field = "asset" -> [payload EXCEPT !.asset = trustedKeys[3]]
      [] field = "nonce" -> [payload EXCEPT !.nonce = "nonce-9999"]
      [] field = "issued_at" -> [payload EXCEPT !.issued_at = @ + 1]
      [] field = "expires_at" -> [payload EXCEPT !.expires_at = @ + 3600]
      [] field = "zone" -> [payload EXCEPT !.zone = "9q8yy"]

SigInit ==
    \E signer \in SigningKeys, field \in SignedFields \cup {"none"},
       trustedEventKeys \in KeyLists :
        call = [fn |-> "verifySignature",
                payload |-> Tampered(Issue([GoodClaim EXCEPT !.asset = signer], signer), field),
                signer |-> signer, field |-> field,
                trustedEventKeys |-> trustedEventKeys,
                called |-> FALSE,
                result |-> [valid |-> FALSE, error |-> "", computed |-> FALSE]]

\* verifySignature(payload, trustedEventKeys) is called and resolves
VerifySignatureCall ==
    /\ call.fn = "verifySignature"
    /\ ~call.called
    /\ call' = [call EXCEPT
            !.called = TRUE,
            !.result = verifySignatureResult(call.payload, call.trustedEventKeys)]
    /\ UNCHANGED <<verifyVars, queueVars, submitVars, zoneVars>>

SigNext == VerifySignatureCall

(***************************************************************************)
(* validateSchema on its own: any parsed value.                            *)
(***************************************************************************)
\* a field that the object does not have
Absent == Field("absent", 0)

\* v: absent, a number, a string
VersionOptions == {Absent, Field("number", 0), Field("string", 1)}

\* a timestamp: absent, a number, a string
TimestampOptions == {Absent, Field("number", 0), Field("string", 10)}

\* a text field with minimum length n: absent, a number, too short, long enough
TextOptions(n) == {Absent, Field("number", 0), Field("string", n - 1), Field("string", n)}

\* the object with the fields of options that are not absent
ObjectOf(options) ==
    [isObject |-> TRUE,
     fields |-> [f \in {g \in DOMAIN options : options[g] # Absent} |-> options[f]]]

SchemaInitWith(shape) ==
    call = [fn |-> "validateSchema", shape |-> shape, called |-> FALSE,
            result |-> [valid |-> FALSE, errors |-> <<>>]]

SchemaInit ==
    \/ SchemaInitWith([isObject |-> FALSE, fields |-> <<>>])
    \/ \E v \in VersionOptions, event_id \in TextOptions(8), asset \in TextOptions(32),
          nonce \in TextOptions(8), issued_at \in TimestampOptions,
          expires_at \in TimestampOptions, zone \in TextOptions(2), sig \in TextOptions(64) :
           SchemaInitWith(ObjectOf([v |-> v, event_id |-> event_id, asset |-> asset,
                                    nonce |-> nonce, issued_at |-> issued_at,
                                    expires_at |-> expires_at, zone |-> zone, sig |-> sig]))

\* validateSchema(payload) is called and returns
ValidateSchemaCall ==
    /\ call.fn = "validateSchema"
    /\ ~call.called
    /\ call' = [call EXCEPT !.called = TRUE, !.result = validateShape(call.shape)]
    /\ UNCHANGED <<verifyVars, queueVars, submitVars, zoneVars>>

SchemaNext == ValidateSchemaCall

(***************************************************************************)
(* encodeGeohash on its own: the same coordinates at a precision and at    *)
(* the next one.                                                           *)
(***************************************************************************)
MaxPrecision == 12

\* coordinates in CoordUnits steps: the ends and the middle of the range,
\* cell borders, the device positions, and one step outside either end
GeoLatitudes == {-1, 0, 1, CoordUnits \div 2, 762206967, 780001852, CoordUnits, CoordUnits + 1}

GeoLongitudes == {-1, 0, CoordUnits \div 4, CoordUnits \div 2, 171740829, 316200562, CoordUnits, CoordUnits + 1}

GeoInit ==
    \E latitude \in GeoLatitudes, longitude \in GeoLongitudes,
       precision \in 0..MaxPrecision :
        call = [fn |-> "encodeGeohash", latitude |-> latitude, longitude |-> longitude,
                precision |-> precision, called |-> FALSE, thrown |-> FALSE,
                code |-> "", finer |-> ""]

\* encodeGeohash is called at precision and, where that is a precision, at
\* precision + 1
EncodeGeohashCall ==
    /\ call.fn = "encodeGeohash"
    /\ ~call.called
    /\ call' =
          IF encodeGeohashThrows(call.latitude, call.longitude, call.precision)
          THEN [call EXCEPT !.called = TRUE, !.thrown = TRUE]
          ELSE [call EXCEPT
                  !.called = TRUE,
                  !.code = encodeGeohash(call.latitude, call.longitude, call.precision),
                  !.finer = IF encodeGeohashThrows(call.latitude, call.longitude,
                                                   call.precision + 1)
                            THEN ""
                            ELSE encodeGeohash(call.latitude, call.longitude,
                                               call.precision + 1)]
    /\ UNCHANGED <<verifyVars, queueVars, submitVars, zoneVars>>

GeoNext == EncodeGeohashCall

(***************************************************************************)
(* recordNonce on its own: a sequence of calls on one set.  The nonces are *)
(* numbered in the order in which they are first committed.                *)
(***************************************************************************)
MaxCalls == 3

\* the sizes of the set before the first call
LedgerSizes ==
    {0, 1, 2, LedgerKeep - 1, LedgerKeep, LedgerLimit - 2, LedgerLimit - 1, LedgerLimit}

LedgerInit ==
    \E n \in LedgerSizes :
        call = [fn |-> "recordNonce", usedNonces |-> [i \in 1..n |-> i],
                before |-> [i \in 1..n |-> i], nonce |-> 0, fresh |-> n + 1,
                calls |-> 0]

\* the nonces a call is made with: one never seen, and the oldest, the
\* middle and the newest of the set
NoncesToRecord ==
    {call.fresh}
    \cup (IF Len(call.usedNonces) = 0 THEN {}
          ELSE {call.usedNonces[1], call.usedNonces[(Len(call.usedNonces) + 1) \div 2],
                call.usedNonces[Len(call.usedNonces)]})

\* recordNonce(nonce, usedNonces) is called: its synchronous part
RecordNonceCall(nonce) ==
    /\ call.fn = "recordNonce"
    /\ call.calls < MaxCalls
    /\ nonce \in NoncesToRecord
    /\ call' = [call EXCEPT
            !.usedNonces = recordNonce(nonce, call.usedNonces),
            !.before = call.usedNonces,
            !.nonce = nonce,
            !.fresh = IF nonce = call.fresh THEN @ + 1 ELSE @,
            !.calls = @ + 1]
    /\ UNCHANGED <<verifyVars, queueVars, submitVars, zoneVars>>

LedgerNext == \E nonce \in 1..(LedgerLimit + MaxCalls) : RecordNonceCall(nonce)

(***************************************************************************)
(* Specifications.                                                         *)
(***************************************************************************)
Init == VerifyInit /\ QueueInit /\ SubmitInit /\ ZoneInitWith("", <<>>, 0) /\ NoCall

Next == VerifyNext \/ QueueNext \/ SubmitNext \/ ZoneNext

Spec == Init /\ [][Next]_vars

\* the verification flow, with an empty queue
VerifyOnlyInit ==
    VerifyInit /\ QueueInitWith(<<>>) /\ SubmitInit /\ ZoneInitWith("", <<>>, 0) /\ NoCall

VerifySpec == VerifyOnlyInit /\ [][VerifyNext]_vars

\* the queue screen, with no verification under way
QueueSpec == Init /\ [][QueueNext]_vars

\* one submission, with one signed item in the queue
SubmitOnlyInit ==
    /\ VerifyInit
    /\ QueueInitWith(<<QueueItem("queue-001", 1, "signed", 0)>>)
    /\ SubmitInit
    /\ ZoneInitWith("", <<>>, 0)
    /\ NoCall

SubmitSpec == SubmitOnlyInit /\ [][SubmitNext]_vars

\* one call of checkZoneMatch on any arguments
ZoneOnlyInit == VerifyInit /\ QueueInitWith(<<>>) /\ SubmitInit /\ ZoneInit /\ NoCall

ZoneSpec == ZoneOnlyInit /\ [][ZoneNext]_vars

\* the state of the screens while one function is called on its own
ScreensIdle ==
    VerifyInit /\ QueueInitWith(<<>>) /\ SubmitInit /\ ZoneInitWith("", <<>>, 0)

\* encodeGeohash at two successive precisions
GeoOnlyInit == ScreensIdle /\ GeoInit

GeoSpec == GeoOnlyInit /\ [][GeoNext]_vars

\* a sequence of recordNonce calls
LedgerOnlyInit == ScreensIdle /\ LedgerInit

LedgerSpec == LedgerOnlyInit /\ [][LedgerNext]_vars

\* one call of validateSchema
SchemaOnlyInit == ScreensIdle /\ SchemaInit

SchemaSpec == SchemaOnlyInit /\ [][SchemaNext]_vars

\* one call of verifySignature
SigOnlyInit == ScreensIdle /\ SigInit

SigSpec == SigOnlyInit /\ [][SigNext]_vars

(***************************************************************************)
(* Properties of the verification flow.                                    *)
(***************************************************************************)
Live(s) == session[s].pc \notin {"new", "gone"}

\* the run of s has passed validateQRPayload
Validated(s) == Live(s) /\ session[s].checkedAt >= 0

\* the run of s has finished (all but the write to storage) and was not abandoned
Completed(s) == session[s].pc \in {"saving", "done"} /\ Validated(s)

\* the zone code of the device during the verification of s
DeviceZone(s) ==
    IF session[s].location = NoLocation THEN ""
    ELSE getCurrentZone(session[s].location)

NowSecs(s) == session[s].checkedAt \div 1000

\* C1: once a claim bearing nonce n has been accepted, every later
\* verification of a claim bearing n (whoever signed it) comes out of
\* validateQRPayload with replay "duplicate", and so is never accepted.
C1_ReplayAfterAcceptance ==
    [][\A s \in Sessions :
          ( /\ session[s].pc = "loaded"
            /\ session'[s].pc \in {"locating", "done"}
            /\ Payloads[session[s].qr].nonce \in accepted )
          => session'[s].result.duplicate = "duplicate"]_vars

\* C2: two verifications in flight at the same time for claims bearing the
\* same nonce never both observe the nonce as absent and get accepted.
C2_AtMostOneAccepted ==
    \A s, t \in Sessions :
        ( /\ s # t
          /\ Live(s) /\ Live(t)
          /\ qrPayload(s).nonce = qrPayload(t).nonce
          /\ session[s].result.duplicate = "clear"
          /\ session[t].result.duplicate = "clear" )
        => ~(allPassed(session[s].status) /\ allPassed(session[t].status))

\* C3: a claim is accepted (the Proceed action enabled or taken) only with
\* signature valid, timeWindow valid, duplicate clear and location valid.
C3_AcceptedOnlyIfAllFour ==
    /\ \A s \in Sessions :
          allPassed(session[s].status) =>
              /\ session[s].status.signature = "valid"
              /\ session[s].status.timeWindow = "valid"
              /\ session[s].status.duplicate = "clear"
              /\ session[s].status.location = "valid"
    /\ \A st \in proceededWith :
          /\ st.signature = "valid"
          /\ st.timeWindow = "valid"
          /\ st.duplicate = "clear"
          /\ st.location = "valid"

C3_Witness == proceededWith # {}

\* C4: recordNonce runs at most once per verification, only after the
\* signature, time-window, replay and zone checks have all succeeded, exactly
\* once for an accepted verification and never for one that is not accepted;
\* nothing else puts a nonce in the ledger.
C4_CommitOnceAfterAllChecks ==
    /\ \A s \in Sessions :
          /\ session[s].commits <= 1
          /\ session[s].commits = 1 =>
                /\ session[s].result.signature = "valid"
                /\ session[s].result.timeWindow = "valid"
                /\ session[s].result.duplicate = "clear"
                /\ session[s].zoneResult = "valid"
                /\ session[s].status.location = "valid"
          /\ ( /\ session[s].status.signature = "valid"
               /\ session[s].status.timeWindow = "valid"
               /\ session[s].status.duplicate = "clear"
               /\ session[s].status.location = "valid" ) => session[s].commits = 1
          /\ ( /\ Validated(s)
               /\ ~Contains(session[s].ledgerAtCheck, qrPayload(s).nonce)
               /\ session[s].commits = 0 )
             => session[s].usedNonces = session[s].ledgerAtCheck
    /\ \A i \in 1..Len(storedNonces) : storedNonces[i] \in accepted

C4_Witness ==
    \E s \in Sessions : session[s].commits = 1 /\ session[s].pc = "done"

\* the signature check itself failed: the payload passes the schema
SignatureFailed(s) ==
    /\ Validated(s)
    /\ parseQRCode(qrPayload(s)).valid
    /\ ~verifySignature(qrPayload(s), trustedKeys)

\* C5: when signature verification fails, signature is "invalid" and the
\* time-window, replay and zone sub-statuses all remain "checking".
C5_OthersStayChecking ==
    \A s \in Sessions :
        SignatureFailed(s) =>
            /\ session[s].status.signature = "invalid"
            /\ session[s].status.timeWindow = "checking"
            /\ session[s].status.duplicate = "checking"
            /\ session[s].status.location = "checking"

\* C6: when the time window is "expired" or "notStarted", replay and zone
\* remain "checking" and no location request is made.
C6_WindowFailureStopsChecks ==
    \A s \in Sessions :
        (Live(s) /\ session[s].status.timeWindow \in {"expired", "notStarted"}) =>
            /\ session[s].status.duplicate = "checking"
            /\ session[s].status.location = "checking"
            /\ session[s].pc # "locating"
            /\ session[s].zoneResult = "none"

\* C7 as stated: every claim with expires_at < now resolves to "expired",
\* whatever its signature and its issued_at.
C7_ExpiredWhatever ==
    \A s \in Sessions :
        (Validated(s) /\ qrPayload(s).expires_at < NowSecs(s)) =>
            session[s].status.timeWindow = "expired"

\* C7 as amended: a claim with expires_at < now (now in whole seconds) that
\* passes the schema and the signature check and has issued_at <= now
\* resolves to "expired"; with a failed schema or signature check the
\* time window stays "checking", and with now < issued_at it is "notStarted".
C7_ExpiredWhenReached ==
    \A s \in Sessions :
        (Validated(s) /\ qrPayload(s).expires_at < NowSecs(s)) =>
            /\ session[s].status.timeWindow = session[s].result.timeWindow
            /\ session[s].result.timeWindow =
                  IF session[s].result.signature = "invalid" THEN "checking"
                  ELSE IF NowSecs(s) < qrPayload(s).issued_at THEN "notStarted"
                  ELSE "expired"

C7_Witness ==
    \E s \in Sessions :
        /\ Validated(s)
        /\ qrPayload(s).expires_at < NowSecs(s)
        /\ qrPayload(s).issued_at <= NowSecs(s)
        /\ session[s].result.signature = "valid"
        /\ session[s].status.timeWindow = "expired"

\* the premises of C8 for the finished verification of s
C8_Premises(s) ==
    /\ Completed(s)
    /\ verifySignature(qrPayload(s), trustedKeys)
    /\ qrPayload(s).issued_at <= NowSecs(s)
    /\ NowSecs(s) <= qrPayload(s).expires_at
    /\ session[s].checkedAt - qrPayload(s).issued_at * 1000 <= maxNonceAge
    /\ ~Contains(session[s].ledgerAtCheck, qrPayload(s).nonce)
    /\ DeviceZone(s) = qrPayload(s).zone

\* C8 as stated: a validly signed claim inside its window and maximum age,
\* with an unused nonce and the device in the claim's zone, is accepted.
C8_ValidClaimAccepted ==
    \A s \in Sessions :
        C8_Premises(s) =>
            /\ session[s].status = [signature |-> "valid", timeWindow |-> "valid",
                                    location |-> "valid", duplicate |-> "clear"]
            /\ session[s].commits = 1

\* C8 as amended: the same, for a claim whose fields pass the schema's
\* minimum lengths (event_id 8, asset 32, zone 2, nonce 8, sig 64).
C8_SchemaValidClaimAccepted ==
    \A s \in Sessions :
        ( /\ C8_Premises(s)
          /\ Len(qrPayload(s).event_id) >= 8
          /\ Len(qrPayload(s).asset) >= 32
          /\ Len(qrPayload(s).zone) >= 2
          /\ Len(qrPayload(s).nonce) >= 8
          /\ qrPayload(s).sig.len >= 64 ) =>
            /\ session[s].status = [signature |-> "valid", timeWindow |-> "valid",
                                    location |-> "valid", duplicate |-> "clear"]
            /\ session[s].commits = 1

C8_Witness ==
    \E s \in Sessions :
        /\ C8_Premises(s)
        /\ qrPayload(s).zone = "dr5ru"
        /\ session[s].checkedAt = (T + 10) * 1000
        /\ allPassed(session[s].status)

(***************************************************************************)
(* Properties of the offline queue.                                        *)
(***************************************************************************)
\* C9: an item in status needsResign becomes pending only together with a
\* new signed transaction for the same id.
C9_ResignNeedsNewTransaction ==
    [][\A id \in ItemIds :
          ( /\ HasItem(offlineQueue, id)
            /\ ItemOf(offlineQueue, id).status = "needsResign"
            /\ HasItem(offlineQueue', id)
            /\ ItemOf(offlineQueue', id).status = "pending" )
          => ItemOf(offlineQueue', id).signedTx # ItemOf(offlineQueue, id).signedTx]_vars

\* C10: every item that was queued and was neither confirmed finalized nor
\* discarded by the user is still in the queue.
C10_RemovedOnlyWhenFinalizedOrDiscarded ==
    \A id \in enqueued :
        id \notin (finalized \cup discarded) => HasItem(offlineQueue, id)

\* C11: a retry of an item that is already pending (the retry button or
\* Retry All) starts no second attempt for its id and leaves its retry
\* counter as it is: no id ever has two attempts in flight.
C11_OneAttemptPerItem ==
    [][\A id \in ItemIds :
          ( /\ HasItem(offlineQueue, id)
            /\ ItemOf(offlineQueue, id).status = "pending"
            /\ HasItem(offlineQueue', id) )
          => /\ ItemOf(offlineQueue', id).retries = ItemOf(offlineQueue, id).retries
             /\ timers'[id] + orphanTimers'[id] <= Max(1, timers[id] + orphanTimers[id])]_vars

\* the age of the claim of s at its check, in ms since issued_at
AgeAtCheck(s) == session[s].checkedAt - qrPayload(s).issued_at * 1000

C17_DuplicateIffMember ==
    \A s \in Sessions :
        (Validated(s) /\ session[s].result.duplicate # "checking") =>
            session[s].result.duplicate =
                IF Contains(session[s].ledgerAtCheck, qrPayload(s).nonce)
                THEN "duplicate" ELSE "clear"

\* C19: when the location is denied, unavailable or timed out the zone
\* sub-status is "denied", never "mismatch"; "mismatch" is shown only for a
\* position that was obtained and whose zone does not match.
C19_DeniedNotMismatch ==
    \A s \in Sessions :
        Completed(s) =>
            /\ session[s].zoneResult = "denied" => session[s].status.location = "denied"
            /\ session[s].status.location = "mismatch" => session[s].zoneResult = "mismatch"

\* C20: a verification that ran to its end is either accepted (allPassed) or
\* rejected (hasFailed), never both and never neither.
C20_ExactlyOneOutcome ==
    \A s \in Sessions :
        Completed(s) => (allPassed(session[s].status) # hasFailed(session[s].status))

\* C15: the ledger a verification loads holds every nonce that was written
\* to storage before, across restarts and whatever the outcome of the read.
C15_LoadedLedgerHoldsStored ==
    [][\A s \in Sessions :
          (session[s].pc = "loading" /\ session'[s].pc = "loaded") =>
              \A i \in 1..Len(storedNonces) :
                  Contains(session'[s].usedNonces, storedNonces[i])]_vars

(***************************************************************************)
(* Properties of zone matching.                                            *)
(***************************************************************************)
\* a and b cut to their first n characters are the same characters
SharesPrefix(a, b, n) ==
    LET m == Max(n, 0)
    IN  /\ Min(Len(a), m) = Min(Len(b), m)
        /\ \A j \in 1..Min(Len(a), m) : SubSeq(a, j, j) = SubSeq(b, j, j)

\* C18 as stated: zone matching accepts exactly when the observed code and
\* some allowed code, both cut to (length - k) characters, are equal; with
\* k = 0 that is equality with an allowed code.
C18_PrefixOfLengthMinusK ==
    zoneCheck.called =>
        (zoneCheck.matches <=>
            \E i \in 1..Len(zoneCheck.allowedZones) :
                IF zoneCheck.tolerance = 0
                THEN zoneCheck.userZone = zoneCheck.allowedZones[i]
                ELSE SharesPrefix(zoneCheck.userZone, zoneCheck.allowedZones[i],
                                  Len(zoneCheck.userZone) - zoneCheck.tolerance))

\* C18, amended: zone matching accepts exactly when the observed code and
\* some allowed code, both cut to max(1, length - k) characters, are equal
\* (k = 0: equal as a whole); at least the first character is compared
\* however large k is.
C18_PrefixAtLeastOneChar ==
    zoneCheck.called =>
        (zoneCheck.matches <=>
            \E i \in 1..Len(zoneCheck.allowedZones) :
                IF zoneCheck.tolerance = 0
                THEN zoneCheck.userZone = zoneCheck.allowedZones[i]
                ELSE SharesPrefix(zoneCheck.userZone, zoneCheck.allowedZones[i],
                                  Max(1, Len(zoneCheck.userZone) - zoneCheck.tolerance)))

\* a tolerance as large as the observed code, and no allowed code starts
\* with its first character: rejected
C18_Witness ==
    /\ zoneCheck.called
    /\ Len(zoneCheck.userZone) >= 1
    /\ zoneCheck.tolerance >= Len(zoneCheck.userZone)
    /\ Len(zoneCheck.allowedZones) >= 1
    /\ \E i \in 1..Len(zoneCheck.allowedZones) :
           Len(zoneCheck.allowedZones[i]) # Len(zoneCheck.userZone)
    /\ ~zoneCheck.matches

(***************************************************************************)
(* Properties of the submission.                                           *)
(***************************************************************************)
\* the attempts made so far all ended in an error that is retried
AllRetryable(outcomes) ==
    \A i \in 1..Len(outcomes) : ~returnsResponse(outcomes[i])

\* a request is being made or is going to be made
AttemptAhead == mint.pc \in {"fetching", "backoff"}

ThreeRetryable ==
    /\ Len(mint.outcomes) >= 3
    /\ AllRetryable(SubSeq(mint.outcomes, 1, 3))

\* ... and the fourth got the relay's 200
SucceededOnFourth ==
    /\ ThreeRetryable
    /\ Len(mint.outcomes) >= 4
    /\ mint.outcomes[4] = Response(200)

\* C13 as stated: when the first three attempts hit a retryable error and
\* the fourth succeeds, the queued item is finalized and removed from the
\* queue, and the retry counter is 3 at the success.
C13_ItemFinalizedAndRemoved ==
    (SucceededOnFourth /\ mint.navigated) =>
        /\ mint.attempt = 3
        /\ \E id \in ItemIds : id \in finalized /\ ~HasItem(offlineQueue, id)

\* the relay request is over and failed: its last attempt threw (network
\* error, timeout) or was answered with an error status, and none follows
RelayRequestFailed ==
    /\ Len(mint.outcomes) >= 1
    /\ ~AttemptAhead
    /\ LET last == mint.outcomes[Len(mint.outcomes)]
       IN  last.kind = "throw" \/ ~last.ok

\* C14: a submission whose relay request failed is never reported as a
\* success: it yields no transaction signature, does not reach 'confirming',
\* 'done' or the success page, and a screen that was not left shows the error.
C14_FailureNeverSuccess ==
    RelayRequestFailed =>
        /\ mint.txSignature = ""
        /\ mint.status \notin {"confirming", "done"}
        /\ ~mint.navigated
        /\ (mint.pc = "ended" /\ ~mint.isCancelled) => mint.error # ""

(***************************************************************************)
(* Properties of the verification flow: failures and storage.              *)
(***************************************************************************)
\* C21: no failure inside a verification leaves performVerification as an
\* exception or an unhandled rejection: no run ever ends rejected.
C21_NoFailureEscapes ==
    \A s \in Sessions : session[s].pc # "rejected"

\* C29: whenever a verification is shown as accepted, its nonce is in the
\* persisted ledger, also when the write of the ledger fails.
C29_AcceptedImpliesStored ==
    \A s \in Sessions :
        (Live(s) /\ allPassed(session[s].status)) =>
            Contains(storedNonces, qrPayload(s).nonce)

\* C22: every zone value that is stored or transmitted is the one-way
\* digest of the geocell code, never the code itself.
C22_OnlyDigestLeaves ==
    \A r \in mint.zonesOut :
        /\ r[2] # MintPayload.zone
        /\ r[2] = hashZoneCode(MintPayload.zone)

(***************************************************************************)
(* Properties of verifySignature.                                          *)
(***************************************************************************)
\* the keys of a list
KeysOf(trustedEventKeys) == {trustedEventKeys[i] : i \in 1..Len(trustedEventKeys)}

SigCalled == call.fn = "verifySignature" /\ call.called

\* C23: a claim whose issuer is not in the trusted set is rejected with
\* InvalidIssuer, before any signature computation.
C23_UntrustedIssuerRejectedFirst ==
    (SigCalled /\ call.signer \notin KeysOf(call.trustedEventKeys)) =>
        /\ ~call.result.valid
        /\ call.result.error = "InvalidIssuer"
        /\ ~call.result.computed

\* the claim as it was signed verifies
ValidAsSigned ==
    verifySignature(Issue([GoodClaim EXCEPT !.asset = call.signer], call.signer),
                    call.trustedEventKeys)

\* C24: for a claim with a valid signature, a change of the value of any one
\* signed field (v, event_id, asset, nonce, issued_at, expires_at, zone)
\* after signing makes verifySignature report invalid.
C24_TamperedFieldInvalid ==
    (SigCalled /\ ValidAsSigned /\ call.field \in SignedFields) =>
        ~call.result.valid

C24_Witness ==
    /\ SigCalled
    /\ ValidAsSigned
    /\ call.field = "zone"
    /\ call.payload.zone # GoodClaim.zone
    /\ ~call.result.valid

\* C30: verifySignature reports valid exactly for a claim that is as it was
\* signed by the first key of the list; a claim signed by the second or a
\* later key of the list is reported invalid.
C30_OnlyFirstKey ==
    SigCalled =>
        (call.result.valid <=>
            (call.field = "none" /\ call.signer = call.trustedEventKeys[1]))

C30_Witness ==
    /\ SigCalled
    /\ call.field = "none"
    /\ Len(call.trustedEventKeys) >= 2
    /\ call.signer \in KeysOf(call.trustedEventKeys)
    /\ call.signer # call.trustedEventKeys[1]
    /\ ~call.result.valid

(***************************************************************************)
(* Properties of validateSchema.                                           *)
(***************************************************************************)
\* the typeof a required field must have
ExpectedType(f) == IF f \in {"v", "issued_at", "expires_at"} THEN "number" ELSE "string"

\* field f is missing from the object, or has another type than it must
MissingOrMistyped(shape, f) ==
    \/ f \notin DOMAIN shape.fields
    \/ shape.fields[f].type # ExpectedType(f)

\* the errors of validateSchema that name field f
ErrorsAbout(f) ==
    {"Missing required field: " \o f}
    \cup (CASE f \in {"issued_at", "expires_at"} -> {"Invalid timestamp format"}
            [] f = "sig" -> {"Invalid signature format"}
            [] OTHER -> {"Invalid " \o f \o " format"})

\* C25: for every parseable payload (an object), the result of
\* validateSchema holds an error for each required field that is missing or
\* mistyped, missing and mistyped fields in the same result.
C25_EveryFieldErrorReported ==
    (call.fn = "validateSchema" /\ call.called /\ call.shape.isObject) =>
        \A i \in 1..Len(requiredFields) :
            MissingOrMistyped(call.shape, requiredFields[i]) =>
                \E j \in 1..Len(call.result.errors) :
                    call.result.errors[j] \in ErrorsAbout(requiredFields[i])

(***************************************************************************)
(* Properties of encodeGeohash.                                            *)
(***************************************************************************)
\* coordinates inside [-90, 90] x [-180, 180]
ValidCoordinates ==
    /\ call.latitude >= 0 /\ call.latitude <= CoordUnits
    /\ call.longitude >= 0 /\ call.longitude <= CoordUnits

\* C26: for valid coordinates and a precision p with 1 <= p < 12, the code
\* at precision p has exactly p symbols and is the first p symbols of the
\* code at precision p + 1.
C26_PrecisionRefines ==
    ( /\ call.fn = "encodeGeohash" /\ call.called
      /\ ValidCoordinates
      /\ call.precision >= 1 /\ call.precision < MaxPrecision ) =>
        /\ ~call.thrown
        /\ Len(call.code) = call.precision
        /\ Len(call.finer) = call.precision + 1
        /\ SubSeq(call.finer, 1, call.precision) = call.code

C26_Witness ==
    /\ call.fn = "encodeGeohash" /\ call.called
    /\ call.latitude = 780001852
    /\ call.longitude = 316200562
    /\ call.precision = DEFAULT_PRECISION
    /\ call.code = "dr5ru"
    /\ Len(call.finer) = DEFAULT_PRECISION + 1

(***************************************************************************)
(* Properties of recordNonce.                                              *)
(***************************************************************************)
\* the number of nonces the last call evicted
Evicted ==
    Len(call.before) + (IF Contains(call.before, call.nonce) THEN 0 ELSE 1)
    - Len(call.usedNonces)

\* C27: after any sequence of recordNonce calls the set holds at most
\* LedgerLimit nonces; a call evicts only when the limit is exceeded, what it
\* evicts are the oldest nonces by insertion order, and the newest ones,
\* the one just committed among them, are kept in their order.
C27_BoundedOldestFirst ==
    (call.fn = "recordNonce") =>
        /\ Len(call.usedNonces) <= LedgerLimit
        /\ call.calls > 0 =>
              /\ Contains(call.usedNonces, call.nonce)
              /\ Evicted >= 0 /\ Evicted <= Len(call.before)
              /\ call.usedNonces =
                    SubSeq(call.before, Evicted + 1, Len(call.before))
                    \o (IF Contains(call.before, call.nonce) THEN <<>> ELSE <<call.nonce>>)
              /\ Evicted > 0 =>
                    (Len(call.before) = LedgerLimit /\ ~Contains(call.before, call.nonce))

C27_Witness ==
    /\ call.fn = "recordNonce"
    /\ call.calls > 0
    /\ Len(call.before) = LedgerLimit
    /\ Evicted > 0
    /\ call.usedNonces[Len(call.usedNonces)] = call.nonce
    /\ call.usedNonces[1] = call.before[Evicted + 1]

(***************************************************************************)
(* Properties of an abandoned verification.                                *)
(***************************************************************************)
\* the run of s goes on after its screen was left
Abandoned(s) == mounted # s /\ session[s].pc \in {"locating", "saving"}

\* C28: leaving the screen changes nothing in the ledger and keeps a commit
\* that was made: the set with the nonce is still written.  When the
\* location request of an abandoned run resolves, nothing of it is applied:
\* no sub-status, no acceptance, no commit, no write.
C28_AbandonedAppliesNothing ==
    [][\A s \in Sessions :
          /\ (Unmount(s) \/ handleProceed(s)) =>
                /\ storedNonces' = storedNonces
                /\ session[s].pc = "saving" =>
                      /\ session'[s].pc = "saving"
                      /\ session'[s].usedNonces = session[s].usedNonces
                      /\ Contains(session'[s].usedNonces, qrPayload(s).nonce)
          /\ (Abandoned(s) /\ session[s].pc = "locating" /\ session'[s] # session[s]) =>
                /\ session'[s] = Gone
                /\ storedNonces' = storedNonces
                /\ accepted' = accepted
          /\ (Abandoned(s) /\ SaveDone(s, TRUE)) =>
                Contains(storedNonces', qrPayload(s).nonce)]_vars

\* a claim that passes every check, its screen left while the location
\* request is pending
C28_Witness ==
    \E s \in Sessions :
        /\ Abandoned(s)
        /\ session[s].pc = "locating"
        /\ session[s].isCancelled
        /\ session[s].qr = 1
        /\ now = (T + 10) * 1000
        /\ storedNonces = <<>>

====
